---- MODULE Spec2Model ----
(***************************************************************************)
(* Expense tracker: the Dashboard aggregation, the BudgetTracker budget    *)
(* evaluation and budget form, the ExpenseList with its realtime re-fetch, *)
(* the ExpenseDialog form, and the store (expenses and budgets tables with *)
(* their row-level-security policies) they talk to.                        *)
(*                                                                         *)
(* Numbers. The store holds an amount as a DECIMAL(10, 2): the model holds  *)
(* its whole number of cents. The components hold JavaScript Numbers: the  *)
(* model holds IEEE-754 doubles and computes every sum, quotient, product, *)
(* comparison and toFixed as the double arithmetic does, rounding where it *)
(* rounds.                                                                 *)
(*                                                                         *)
(* Time. An instant is a whole number of hours since 1970-01-01T00:00Z.    *)
(* A calendar date "YYYY-MM-DD" is the record [y, m, d]; the proleptic     *)
(* Gregorian calendar is computed, not tabulated. A time zone is its       *)
(* offset before and after one transition instant.                         *)
(***************************************************************************)
EXTENDS Integers, Sequences, FiniteSets, Bags, TLC

VARIABLES
    now,            \* the client's clock: the instant new Date() returns
    zone,           \* the client's time zone
    session,        \* the authenticated user, or NoUser
    expensesTbl,    \* store: rows of public.expenses
    budgetsTbl,     \* store: rows of public.budgets
    nextId,         \* store: next generated row id
    stats,          \* Dashboard: useState stats
    dashFetch,      \* Dashboard: fetchDashboardData in flight
    budget,         \* BudgetTracker: useState budget
    monthlySpending,\* BudgetTracker: useState monthlySpending
    btDialogOpen,   \* BudgetTracker: useState dialogOpen
    budgetAmount,   \* BudgetTracker: useState budgetAmount
    btCalls,        \* BudgetTracker: the calls of handleSetBudget in flight
    btFetches,      \* BudgetTracker: fetchBudget / fetchMonthlySpending in flight
    expenses,       \* ExpenseList: useState expenses
    dialogOpen,     \* ExpenseList: useState dialogOpen
    editingExpense, \* ExpenseList: useState editingExpense
    editingListed,  \* ExpenseList: editingExpense is an object of the array expenses
    listFetches,    \* ExpenseList: fetchExpenses calls in flight
    notifications,  \* realtime change notifications not yet delivered
    delCalls,       \* ExpenseList: the calls of handleDelete in flight
    formData,       \* ExpenseDialog: useState formData
    edCalls,        \* ExpenseDialog: the calls of handleSubmit in flight
    toast,          \* the last toast shown
    gestures        \* how many handlers the user may still start

envVars   == <<now, zone, session>>
storeVars == <<expensesTbl, budgetsTbl, nextId>>
dashVars  == <<stats, dashFetch>>
btVars    == <<budget, monthlySpending, btDialogOpen, budgetAmount, btCalls, btFetches>>
listVars  == <<expenses, dialogOpen, editingExpense, editingListed, listFetches,
               notifications, delCalls>>
edVars    == <<formData, edCalls>>

vars == <<envVars, storeVars, dashVars, btVars, listVars, edVars, toast, gestures>>

----------------------------------------------------------------------------
(* The calendar.                                                           *)

\* Days from 1970-01-01 to the civil date y-m-d (d may lie outside the month:
\* JavaScript's MakeDay counts days from the first of the month).
DaysFromCivil(y, m, d) ==
    LET yy  == IF m <= 2 THEN y - 1 ELSE y
        era == yy \div 400
        yoe == yy - era * 400
        mp  == IF m > 2 THEN m - 3 ELSE m + 9
        doy == (153 * mp + 2) \div 5 + d - 1
        doe == yoe * 365 + yoe \div 4 - yoe \div 100 + doy
    IN  era * 146097 + doe - 719468

\* The civil date of day number z.
CivilFromDays(z) ==
    LET zz  == z + 719468
        era == zz \div 146097
        doe == zz - era * 146097
        yoe == (doe - doe \div 1460 + doe \div 36524 - doe \div 146096) \div 365
        doy == doe - (365 * yoe + yoe \div 4 - yoe \div 100)
        mp  == (5 * doy + 2) \div 153
        dd  == doy - (153 * mp + 2) \div 5 + 1
        mm  == IF mp < 10 THEN mp + 3 ELSE mp - 9
        yy  == yoe + era * 400 + (IF mm <= 2 THEN 1 ELSE 0)
    IN  [y |-> yy, m |-> mm, d |-> dd]

\* A date string "YYYY-MM-DD" as a day number, and back.
DayOf(date) == DaysFromCivil(date.y, date.m, date.d)

\* Date strings compare as their dates do (the column is a DATE).
DateLeq(a, b) == DayOf(a) <= DayOf(b)

----------------------------------------------------------------------------
(* JavaScript Date in the client's time zone.                              *)

\* The zone's offset from UTC, in hours, at instant t.
OffsetAt(z, t) == IF t < z.switch THEN z.before ELSE z.after

\* LocalTime(t): the wall-clock hour count of instant t.
LocalTime(z, t) == t + OffsetAt(z, t)

\* UTC(w): the instant of wall-clock hour count w. A wall-clock time that
\* occurs twice or not at all around the transition is read with the offset
\* before the transition.
UTCOfLocal(z, w) ==
    IF w - z.before < z.switch THEN w - z.before
    ELSE IF w - z.after >= z.switch THEN w - z.after
    ELSE w - z.before

\* getFullYear(), getMonth() + 1, getDate(), getHours() of instant t.
LocalFields(z, t) ==
    LET w == LocalTime(z, t)
        c == CivilFromDays(w \div 24)
    IN  [y |-> c.y, m |-> c.m, d |-> c.d, h |-> w % 24]

\* new Date(year, monthIndex, 1): local midnight of the first of the month.
NewDateLocal(z, y, m, d) == UTCOfLocal(z, DaysFromCivil(y, m, d) * 24)

\* new Date("YYYY-MM-DD"): a date-only string is midnight UTC.
NewDateISO(date) == DayOf(date) * 24

\* date.setDate(dayOfMonth): the same local year, month and time of day.
SetDate(z, t, dayOfMonth) ==
    LET f == LocalFields(z, t)
    IN  UTCOfLocal(z, DaysFromCivil(f.y, f.m, dayOfMonth) * 24 + f.h)

\* date.toISOString().split("T")[0]: the UTC calendar date.
ToISODate(t) == CivilFromDays(t \div 24)

\* `${getFullYear()}-${String(getMonth() + 1).padStart(2, "0")}-01`
MonthString(z, t) ==
    LET f == LocalFields(z, t) IN [y |-> f.y, m |-> f.m, d |-> 1]

----------------------------------------------------------------------------
(* Whole numbers of any size. A JavaScript Number has 53 significant bits.  *)
(* So that no intermediate value needs more than 31 bits, the arithmetic   *)
(* on Numbers is done on sequences of limbs: the digits of a whole number  *)
(* in base Limb, least significant first, the last one not zero.           *)

LimbBits == 15
Limb == 2^LimbBits

RECURSIVE Trim(_)
Trim(a) == IF a # <<>> /\ a[Len(a)] = 0 THEN Trim(SubSeq(a, 1, Len(a) - 1)) ELSE a

RECURSIVE BigOf(_)
BigOf(n) == IF n = 0 THEN <<>> ELSE <<n % Limb>> \o BigOf(n \div Limb)

RECURSIVE IntOf(_)
IntOf(a) == IF a = <<>> THEN 0 ELSE a[1] + Limb * IntOf(Tail(a))

LimbAt(a, i) == IF 1 <= i /\ i <= Len(a) THEN a[i] ELSE 0

RECURSIVE AddFrom(_, _, _, _)
AddFrom(a, b, i, carry) ==
    IF i > Len(a) /\ i > Len(b) THEN BigOf(carry)
    ELSE LET s == LimbAt(a, i) + LimbAt(b, i) + carry
         IN  <<s % Limb>> \o AddFrom(a, b, i + 1, s \div Limb)

BigAdd(a, b) == AddFrom(a, b, 1, 0)

RECURSIVE SubFrom(_, _, _, _)
SubFrom(a, b, i, borrow) ==
    IF i > Len(a) THEN <<>>
    ELSE LET d == a[i] - LimbAt(b, i) - borrow
         IN  IF d < 0 THEN <<d + Limb>> \o SubFrom(a, b, i + 1, 1)
             ELSE <<d>> \o SubFrom(a, b, i + 1, 0)

\* a - b, for a >= b.
BigSub(a, b) == Trim(SubFrom(a, b, 1, 0))

RECURSIVE CmpFrom(_, _, _)
CmpFrom(a, b, i) ==
    IF i = 0 THEN 0
    ELSE IF a[i] > b[i] THEN 1
    ELSE IF a[i] < b[i] THEN -1
    ELSE CmpFrom(a, b, i - 1)

\* 1, 0 or -1 as a is greater than, equal to or less than b.
BigCmp(a, b) ==
    IF Len(a) > Len(b) THEN 1
    ELSE IF Len(a) < Len(b) THEN -1
    ELSE CmpFrom(a, b, Len(a))

RECURSIVE TimesFrom(_, _, _, _)
TimesFrom(a, k, i, carry) ==
    IF i > Len(a) THEN BigOf(carry)
    ELSE LET p == a[i] * k + carry
         IN  <<p % Limb>> \o TimesFrom(a, k, i + 1, p \div Limb)

\* a * k, for 0 <= k <= Limb.
BigTimes(a, k) == IF k = 0 THEN <<>> ELSE TimesFrom(a, k, 1, 0)

RECURSIVE DivideFrom(_, _, _, _)
DivideFrom(a, k, i, rem) ==
    IF i = 0 THEN [q |-> <<>>, r |-> rem]
    ELSE LET cur  == rem * Limb + a[i]
             rest == DivideFrom(a, k, i - 1, cur % k)
         IN  [q |-> Append(rest.q, cur \div k), r |-> rest.r]

\* The quotient q and the remainder r of a by k, for 0 < k <= Limb.
BigDivide(a, k) ==
    LET d == DivideFrom(a, k, Len(a), 0) IN [q |-> Trim(d.q), r |-> d.r]

\* a * 2^r and the whole part of a / 2^r, for 0 <= r < LimbBits.
ShlBits(a, r) ==
    Trim([i \in 1..Len(a) + 1 |->
            (LimbAt(a, i) % (2^(LimbBits - r))) * (2^r)
               + LimbAt(a, i - 1) \div (2^(LimbBits - r))])
ShrBits(a, r) ==
    Trim([i \in 1..Len(a) |->
            a[i] \div (2^r) + (LimbAt(a, i + 1) % (2^r)) * (2^(LimbBits - r))])

\* a * 2^n and the whole part of a / 2^n.
BigShl(a, n) ==
    IF a = <<>> THEN <<>>
    ELSE [i \in 1..(n \div LimbBits) |-> 0] \o ShlBits(a, n % LimbBits)
BigShr(a, n) ==
    IF n \div LimbBits >= Len(a) THEN <<>>
    ELSE ShrBits(SubSeq(a, n \div LimbBits + 1, Len(a)), n % LimbBits)

RECURSIVE IntBits(_)
IntBits(n) == IF n = 0 THEN 0 ELSE 1 + IntBits(n \div 2)

\* The number of bits of a.
BitLength(a) == IF a = <<>> THEN 0 ELSE LimbBits * (Len(a) - 1) + IntBits(a[Len(a)])

IsOdd(a) == a # <<>> /\ a[1] % 2 = 1

\* The largest digit d <= guess with b * d <= a.
RECURSIVE DigitAtMost(_, _, _)
DigitAtMost(a, b, guess) ==
    IF BigCmp(BigTimes(b, guess), a) > 0 THEN DigitAtMost(a, b, guess - 1) ELSE guess

\* n more limbs of the quotient by b, from the quotient q and the remainder
\* rem < b found so far. Each limb is guessed from the two leading limbs of
\* the remainder and the leading limb of b, then corrected.
RECURSIVE DivideLimbs(_, _, _, _)
DivideLimbs(rem, b, n, q) ==
    IF n = 0 THEN [q |-> Trim(q), r |-> rem]
    ELSE LET cur   == BigShl(rem, LimbBits)
             guess == (LimbAt(cur, Len(b) + 1) * Limb + LimbAt(cur, Len(b))) \div b[Len(b)]
             digit == DigitAtMost(cur, b, IF guess >= Limb THEN Limb - 1 ELSE guess)
         IN  DivideLimbs(BigSub(cur, BigTimes(b, digit)), b, n - 1, <<digit>> \o q)

----------------------------------------------------------------------------
(* JavaScript Numbers: IEEE-754 doubles. A double is its sign and its      *)
(* magnitude m * 2^e, m a whole number of exactly Precision bits; zero has *)
(* no bits. Each operation rounds its exact result to the nearest double,  *)
(* to the even one of two nearest. The amounts of the model stay far from  *)
(* the largest and the smallest doubles: no Infinity, no subnormal number; *)
(* no -0 and no NaN are among the doubles of the model.                    *)

Precision == 53

Zero == [sign |-> 1, m |-> <<>>, e |-> 0]

\* The double nearest to sign * n * 2^e; with more, to a value a little
\* above n * 2^e in magnitude (by less than 2^e), for n of Precision + 2
\* bits at least.
RoundToDouble(sign, n, e, more) ==
    IF n = <<>> THEN Zero
    ELSE LET len == BitLength(n)
         IN  IF len <= Precision
             THEN [sign |-> sign, m |-> BigShl(n, Precision - len),
                   e |-> e - (Precision - len)]
             ELSE LET drop == len - Precision
                      kept == BigShr(n, drop)
                      rest == BigSub(n, BigShl(kept, drop))
                      c    == BigCmp(rest, BigShl(<<1>>, drop - 1))
                      up   == c > 0 \/ (c = 0 /\ (more \/ IsOdd(kept)))
                      m    == IF up THEN BigAdd(kept, <<1>>) ELSE kept
                  IN  IF BitLength(m) > Precision
                      THEN [sign |-> sign, m |-> BigShr(m, 1), e |-> e + drop + 1]
                      ELSE [sign |-> sign, m |-> m, e |-> e + drop]

Abs(n) == IF n < 0 THEN 0 - n ELSE n
SignOf(n) == IF n < 0 THEN -1 ELSE 1

\* The Number of a whole number.
DoubleOf(n) == RoundToDouble(SignOf(n), BigOf(Abs(n)), 0, FALSE)

\* Number(amount) of a DECIMAL(10, 2) value of the store, which the model
\* holds as its number of cents: the double nearest to cents / 100.
NumberOf(cents) ==
    LET d == BigDivide(BigShl(BigOf(Abs(cents)), 64), 100)
    IN  RoundToDouble(SignOf(cents), d.q, -64, d.r # 0)

Negate(x) == IF x.m = <<>> THEN x ELSE [x EXCEPT !.sign = 0 - x.sign]

\* x + y
Plus(x, y) ==
    IF x.m = <<>> THEN y
    ELSE IF y.m = <<>> THEN x
    ELSE LET e == IF x.e < y.e THEN x.e ELSE y.e
             a == BigShl(x.m, x.e - e)
             b == BigShl(y.m, y.e - e)
         IN  IF x.sign = y.sign THEN RoundToDouble(x.sign, BigAdd(a, b), e, FALSE)
             ELSE IF BigCmp(a, b) >= 0 THEN RoundToDouble(x.sign, BigSub(a, b), e, FALSE)
             ELSE RoundToDouble(y.sign, BigSub(b, a), e, FALSE)

\* x - y
Minus(x, y) == Plus(x, Negate(y))

\* x * k for a whole number k, 0 < k <= Limb.
Times(x, k) == RoundToDouble(x.sign, BigTimes(x.m, k), x.e, FALSE)

\* x / y, for y other than zero: the quotient of the magnitudes' bits has
\* the whole part 0 or 1; as many limbs as the divisor has follow it, more
\* bits than Precision + 2.
Quotient(x, y) ==
    IF x.m = <<>> THEN Zero
    ELSE LET up    == LimbBits * Len(y.m) - BitLength(y.m)
             a     == BigShl(x.m, up)
             b     == BigShl(y.m, up)
             one   == BigCmp(a, b) >= 0
             limbs == Len(b)
             d     == DivideLimbs(IF one THEN BigSub(a, b) ELSE a, b, limbs,
                                  IF one THEN <<1>> ELSE <<>>)
         IN  RoundToDouble(x.sign * y.sign, d.q, x.e - y.e - LimbBits * limbs,
                           d.r # <<>>)

\* 1, 0 or -1 as x is greater than, equal to or less than y.
Compare(x, y) ==
    LET sx == IF x.m = <<>> THEN 0 ELSE x.sign
        sy == IF y.m = <<>> THEN 0 ELSE y.sign
        e  == IF x.e < y.e THEN x.e ELSE y.e
    IN  IF sx # sy THEN (IF sx > sy THEN 1 ELSE -1)
        ELSE IF sx = 0 THEN 0
        ELSE sx * BigCmp(BigShl(x.m, x.e - e), BigShl(y.m, y.e - e))

\* x > k and x <= k for a whole number k.
Greater(x, k) == Compare(x, DoubleOf(k)) > 0
AtMost(x, k) == Compare(x, DoubleOf(k)) <= 0

RECURSIVE Pow10(_)
Pow10(n) == IF n = 0 THEN 1 ELSE 10 * Pow10(n - 1)

\* x.toFixed(digits), digits <= 4: the sign of x and the whole number n of
\* units of the last digit for which n / 10^digits is nearest to the
\* magnitude of x, the larger n of two nearest.
ToFixed(x, digits) ==
    LET scaled == BigTimes(x.m, Pow10(digits))
        whole  == IF x.e >= 0 THEN BigShl(scaled, x.e) ELSE BigShr(scaled, 0 - x.e)
        rest   == IF x.e >= 0 THEN <<>> ELSE BigSub(scaled, BigShl(whole, 0 - x.e))
        up     == rest # <<>> /\ BigCmp(rest, BigShl(<<1>>, 0 - x.e - 1)) >= 0
    IN  [negative |-> x.sign < 0,
         units    |-> IntOf(IF up THEN BigAdd(whole, <<1>>) ELSE whole)]

----------------------------------------------------------------------------
(* Values.                                                                 *)

\* null / undefined. Every nullable value of the model is a record, so that
\* it compares with Null.
Null == [null |-> TRUE]

\* A null uuid column or a null user.
NullId == "NULL"
NoUser == NullId
Users == {"u1", "u2"}

\* public.expense_categories: three of the nine seeded rows, by id.
CategoryIds == {"c-food", "c-travel", "c-other"}
Categories ==
    [c \in CategoryIds |->
        CASE c = "c-food"   -> [name |-> "Food & Dining", color |-> "#F59E0B", icon |-> "burger"]
          [] c = "c-travel" -> [name |-> "Travel", color |-> "#14B8A6", icon |-> "plane"]
          [] c = "c-other"  -> [name |-> "Other", color |-> "#6B7280", icon |-> "pin"]]

\* Bounds of the model.
MaxExp == 2          \* rows of public.expenses
\* The amounts the model's expenses carry, in cents: 0.10 and 0.20.
Amounts == {10, 20}

Date(y, m, d) == [y |-> y, m |-> m, d |-> d]
Instant(y, m, d, h) == DaysFromCivil(y, m, d) * 24 + h

\* The dates the model's expenses carry: a week before a month's end, the
\* last day of the month, and the first day of the next.
ExpenseDates == {Date(2024, 3, 25), Date(2024, 3, 31), Date(2024, 4, 1)}

\* The client's zones, as they are from November 2023 to October 2024: UTC;
\* London, whose clocks go forward at 2024-03-31T01:00Z; New York, UTC-5
\* until its clocks go forward at 2024-03-10T07:00Z and UTC-4 from then on;
\* Tokyo (UTC+9).
UTCZone == [before |-> 0, after |-> 0, switch |-> 0]
London  == [before |-> 0, after |-> 1, switch |-> Instant(2024, 3, 31, 1)]
NewYork == [before |-> -5, after |-> -4, switch |-> Instant(2024, 3, 10, 7)]
Tokyo   == [before |-> 9, after |-> 9, switch |-> 0]
Zones == {UTCZone, London, NewYork, Tokyo}

\* The instants the model's clock shows.
Instants == {Instant(2024, 3, 31, 23), Instant(2024, 4, 1, 2), Instant(2024, 4, 1, 12)}

----------------------------------------------------------------------------
(* The store: public.expenses and its row-level security.                  *)

\* "Users can view own expenses": USING (auth.uid() = user_id)
CanViewExpense(uid, row) == uid = row.user_id

\* select(`*, expense_categories (name, color)`): the row with its category
\* embedded, or null when category_id is null.
WithCategory(row) ==
    [id |-> row.id, user_id |-> row.user_id, category_id |-> row.category_id,
     amount |-> row.amount, description |-> row.description, date |-> row.date,
     expense_categories |->
        IF row.category_id = NullId THEN Null
        ELSE [name  |-> Categories[row.category_id].name,
              color |-> Categories[row.category_id].color]]

\* The sequences that hold each row of a set once: the orders in which the
\* store may return the rows of a query.
InAnyOrder(rows) ==
    {seq \in [1..Cardinality(rows) -> rows] :
        \A i, j \in 1..Cardinality(rows) : seq[i] = seq[j] => i = j}

\* .order("date", { ascending: false }): a may come before b when its date is
\* not the earlier one. The query names no second key, so the store is free
\* in the order of the rows of one date.
Before(a, b) == DayOf(a.date) >= DayOf(b.date)

\* The orders in which the store may return the rows, latest date first.
OrderByDateDesc(rows) ==
    {seq \in InAnyOrder(rows) :
        \A i, j \in 1..Len(seq) : i < j => Before(seq[i], seq[j])}

\* The answers the query of fetchDashboardData may return to user uid.
SelectExpenses(tbl, uid) ==
    OrderByDateDesc({WithCategory(r) : r \in {x \in tbl : CanViewExpense(uid, x)}})

----------------------------------------------------------------------------
(* Dashboard: the aggregation of fetchDashboardData.                       *)

\* expenses.reduce((sum, exp) => sum + Number(exp.amount), 0): the double
\* sum, taken from the left in the order of the fetched rows.
RECURSIVE ReduceAmount(_, _)
ReduceAmount(exps, sum) ==
    IF exps = <<>> THEN sum
    ELSE ReduceAmount(Tail(exps), Plus(sum, NumberOf(Head(exps).amount)))

TotalExpenses(exps) == ReduceAmount(exps, Zero)

\* new Date(now.getFullYear(), now.getMonth(), 1)
FirstDayOfMonth(z, t) ==
    LET f == LocalFields(z, t) IN NewDateLocal(z, f.y, f.m, 1)

\* .filter((exp) => new Date(exp.date) >= firstDayOfMonth).reduce(...)
InMonth(exp, firstDayOfMonth) == NewDateISO(exp.date) >= firstDayOfMonth

MonthlyExpenses(exps, firstDayOfMonth) ==
    ReduceAmount(SelectSeq(exps, LAMBDA e : InMonth(e, firstDayOfMonth)), Zero)

\* exp.expense_categories?.name || "Other"
CategoryOf(exp) ==
    IF exp.expense_categories = Null THEN "Other"
    ELSE IF exp.expense_categories.name = "" THEN "Other"
    ELSE exp.expense_categories.name

\* exp.expense_categories?.color || "#6B7280"
ColorOf(exp) ==
    IF exp.expense_categories = Null THEN "#6B7280"
    ELSE IF exp.expense_categories.color = "" THEN "#6B7280"
    ELSE exp.expense_categories.color

\* categoryMap is a Map: a sequence of entries in insertion order.
MapHas(map, key) == \E i \in 1..Len(map) : map[i].category = key
MapIndex(map, key) == CHOOSE i \in 1..Len(map) : map[i].category = key

\* categoryMap.get(category) || { amount: 0, color }
MapGetOr(map, key, color) ==
    IF MapHas(map, key) THEN map[MapIndex(map, key)]
    ELSE [category |-> key, amount |-> Zero, color |-> color]

\* MapSet putting a new key in front.
MapSetPrepends(map, key, value) ==
    IF MapHas(map, key) THEN [map EXCEPT ![MapIndex(map, key)] = value]
    ELSE <<value>> \o map

\* categoryMap.set(category, value): a present key keeps its place.
MapSet(map, key, value) ==
    IF MapHas(map, key) THEN [map EXCEPT ![MapIndex(map, key)] = value]
    ELSE Append(map, value)

\* The body of expenses.forEach.
CategoryStep(map, exp) ==
    LET category == CategoryOf(exp)
        color    == ColorOf(exp)
        current  == MapGetOr(map, category, color)
    IN  MapSet(map, category,
               [category |-> category,
                amount |-> Plus(current.amount, NumberOf(exp.amount)),
                color |-> color])

RECURSIVE ForEachCategory(_, _)
ForEachCategory(exps, map) ==
    IF exps = <<>> THEN map
    ELSE ForEachCategory(Tail(exps), CategoryStep(map, Head(exps)))

\* Array.from(categoryMap.entries()).map(...)
CategorySummary(exps) == ForEachCategory(exps, <<>>)

\* Array.from({ length: 7 }, (_, i) => { const date = new Date();
\*   date.setDate(date.getDate() - (6 - i)); return ISO date }), i = 0 .. 6.
TrendDay(z, t, i) == ToISODate(SetDate(z, t, LocalFields(z, t).d - (6 - i)))

Last7Days(z, t) == [k \in 1..7 |-> TrendDay(z, t, k - 1)]

\* expenses.filter((exp) => exp.date === date).reduce(...)
AmountOn(exps, date) ==
    ReduceAmount(SelectSeq(exps, LAMBDA e : e.date = date), Zero)

DailyTrend(exps, z, t) ==
    LET days == Last7Days(z, t)
    IN  [k \in 1..7 |-> [date |-> days[k], amount |-> AmountOn(exps, days[k])]]

\* The stats fetchDashboardData sets: firstDayOfMonth was taken before the
\* await, the trend's days are taken at instant t, after it.
ComputeStats(exps, firstDayOfMonth, z, t) ==
    [totalExpenses   |-> TotalExpenses(exps),
     monthlyExpenses |-> MonthlyExpenses(exps, firstDayOfMonth),
     categorySummary |-> CategorySummary(exps),
     dailyTrend      |-> DailyTrend(exps, z, t)]

\* useState<DashboardStats>({ totalExpenses: 0, ... })
InitialStats ==
    [totalExpenses |-> Zero, monthlyExpenses |-> Zero, categorySummary |-> <<>>,
     dailyTrend |-> <<>>]

----------------------------------------------------------------------------
(* Dashboard: fetchDashboardData, step by step.                            *)

\* No call of fetchDashboardData in flight. A request carries the token of
\* the session it was sent in: uid is the user the store takes it to be from.
DashDone == [pc |-> "done", firstDayOfMonth |-> 0, uid |-> NullId, hasData |-> FALSE,
             data |-> <<>>]
DashMounting == [DashDone EXCEPT !.pc = "mount"]

\* useEffect(() => { fetchDashboardData() }, []): up to the await.
DashboardEffect ==
    /\ dashFetch.pc = "mount"
    /\ dashFetch' = [DashDone EXCEPT !.pc = "sent",
                                     !.firstDayOfMonth = FirstDayOfMonth(zone, now),
                                     !.uid = session]

FetchDashboardDataStart ==
    /\ DashboardEffect
    /\ UNCHANGED <<envVars, storeVars, stats, btVars, listVars, edVars, toast, gestures>>

\* The store answers the query: the rows the request's user may see, in one
\* of the orders the query allows, or no data when the request fails.
FetchDashboardDataQuery ==
    /\ dashFetch.pc = "sent"
    /\ \/ dashFetch' = [dashFetch EXCEPT !.pc = "replied"]
       \/ \E data \in SelectExpenses(expensesTbl, dashFetch.uid) :
            dashFetch' = [dashFetch EXCEPT !.pc = "replied", !.hasData = TRUE,
                                           !.data = data]
    /\ UNCHANGED <<envVars, storeVars, stats, btVars, listVars, edVars, toast, gestures>>

\* After the await: if (!expenses) return; ...; setStats({...}).
FetchDashboardDataResume ==
    /\ dashFetch.pc = "replied"
    /\ stats' = IF dashFetch.hasData
                THEN ComputeStats(dashFetch.data, dashFetch.firstDayOfMonth, zone, now)
                ELSE stats
    /\ dashFetch' = DashDone
    /\ UNCHANGED <<envVars, storeVars, btVars, listVars, edVars, toast, gestures>>

\* The clock moves on.
Tick ==
    /\ \E t \in Instants : t > now /\ now' = t
    /\ UNCHANGED <<zone, session, storeVars, dashVars, btVars, listVars, edVars,
                   toast, gestures>>

----------------------------------------------------------------------------
(* Strings and numbers. A string the user types is a sequence of           *)
(* one-character strings. The amount inputs have step="0.01": the browser  *)
(* submits a form whose amount has two decimals at most. A parsed number   *)
(* is the decimal value / 10^places, with no zero at the end of places.    *)

DigitChars == <<"0", "1", "2", "3", "4", "5", "6", "7", "8", "9">>
IsDigit(c) == \E i \in 1..10 : DigitChars[i] = c
DigitValue(c) == (CHOOSE i \in 1..10 : DigitChars[i] = c) - 1

NaN == [nan |-> TRUE, value |-> 0, places |-> 0]

RECURSIVE Num(_, _)
Num(n, places) ==
    IF places > 0 /\ n % 10 = 0 THEN Num(n \div 10, places - 1)
    ELSE [nan |-> FALSE, value |-> n, places |-> places]

RECURSIVE SkipSpaces(_)
SkipSpaces(s) == IF s # <<>> /\ Head(s) = " " THEN SkipSpaces(Tail(s)) ELSE s

\* The longest prefix of digits of s, and what follows it.
RECURSIVE LeadingDigits(_)
LeadingDigits(s) ==
    IF s # <<>> /\ IsDigit(Head(s)) THEN <<Head(s)>> \o LeadingDigits(Tail(s)) ELSE <<>>

AfterDigits(s) == SubSeq(s, Len(LeadingDigits(s)) + 1, Len(s))

\* The whole number a sequence of digits writes.
RECURSIVE ValueOf(_)
ValueOf(digits) ==
    IF digits = <<>> THEN 0
    ELSE 10 * ValueOf(SubSeq(digits, 1, Len(digits) - 1)) + DigitValue(digits[Len(digits)])

\* parseFloat(string): leading white space is skipped, then an optional
\* sign, digits, and a "." with digits; what follows is ignored. NaN when
\* there is no digit. (The inputs of the model hold no exponent.)
ParseFloat(str) ==
    LET s        == SkipSpaces(str)
        negative == s # <<>> /\ Head(s) = "-"
        signed   == s # <<>> /\ Head(s) \in {"-", "+"}
        body     == IF signed THEN Tail(s) ELSE s
        whole    == LeadingDigits(body)
        rest     == AfterDigits(body)
        fraction == IF rest # <<>> /\ Head(rest) = "." THEN LeadingDigits(Tail(rest))
                    ELSE <<>>
        value    == ValueOf(whole \o fraction)
    IN  IF whole = <<>> /\ fraction = <<>> THEN NaN
        ELSE Num(IF negative THEN 0 - value ELSE value, Len(fraction))

\* The value the store keeps in a DECIMAL(10, 2) column for the number x it
\* is sent, in cents: x rounded to two decimals, the half away from zero.
Decimal2(x) ==
    IF x.places <= 2 THEN x.value * Pow10(2 - x.places)
    ELSE LET unit == Pow10(x.places - 2)
         IN  SignOf(x.value) * ((2 * Abs(x.value) + unit) \div (2 * unit))

RECURSIVE DigitsOf(_)
DigitsOf(n) ==
    IF n < 10 THEN <<DigitChars[n + 1]>>
    ELSE Append(DigitsOf(n \div 10), DigitChars[(n % 10) + 1])

\* Number.prototype.toString() of the Number of a DECIMAL(10, 2) value of
\* cents: the shortest decimal that reads back as the same double, which is
\* the value's own decimal without a zero at its end.
NumberToString(cents) ==
    LET whole == DigitsOf(Abs(cents) \div 100)
        tenth == DigitChars[((Abs(cents) % 100) \div 10) + 1]
        hundredth == DigitChars[(Abs(cents) % 10) + 1]
    IN  (IF cents < 0 THEN <<"-">> ELSE <<>>) \o whole \o
        (IF Abs(cents) % 100 = 0 THEN <<>>
         ELSE IF Abs(cents) % 10 = 0 THEN <<".", tenth>>
         ELSE <<".", tenth, hundredth>>)

\* isNaN(x), x <= 0 (false for NaN)
IsNaN(x) == x.nan
LeqZero(x) == ~x.nan /\ x.value <= 0

----------------------------------------------------------------------------
(* The last toast shown.                                                   *)

NoToast == [kind |-> "none", message |-> ""]
ToastError(m) == [kind |-> "error", message |-> m]
ToastSuccess(m) == [kind |-> "success", message |-> m]

----------------------------------------------------------------------------
(* The store: public.budgets. A row is its user_id, month and limit_amount.*)

\* "Users can view own budgets": USING (auth.uid() = user_id)
CanViewBudget(uid, row) == uid = row.user_id

\* "Users can insert own budgets" / "Users can update own budgets"
CanWriteBudget(uid, row) == uid = row.user_id

\* UNIQUE(user_id, month): the rows in conflict with row.
Conflicting(tbl, row) ==
    {r \in tbl : r.user_id = row.user_id /\ r.month = row.month}

\* UpsertBudget as a plain insert, without the conflict target.
UpsertBudgetInsertsOnly(tbl, row) == tbl \cup {row}

\* upsert(row, { onConflict: "user_id,month" }): the row replaces the one it
\* conflicts with, or is added.
UpsertBudget(tbl, row) == (tbl \ Conflicting(tbl, row)) \cup {row}

\* .from("budgets").select("*").eq("month", month).maybeSingle(): the one
\* visible row of that month; null when there is none (or more than one).
SelectBudget(tbl, uid, month) ==
    LET rows == {r \in tbl : CanViewBudget(uid, r) /\ r.month = month}
    IN  IF Cardinality(rows) = 1 THEN CHOOSE r \in rows : TRUE ELSE Null

\* .from("expenses").select("amount").gte("date", firstDayOfMonth): the
\* amounts of the visible rows dated on or after that day; the query names
\* no order, so the answers are these rows in any order.
SelectAmountsSince(tbl, uid, firstDayOfMonth) ==
    LET rows == {r \in tbl : CanViewExpense(uid, r) /\ DateLeq(firstDayOfMonth, r.date)}
    IN  {[i \in 1..Len(seq) |-> [amount |-> seq[i].amount]] : seq \in InAnyOrder(rows)}

----------------------------------------------------------------------------
(* BudgetTracker: what it renders.                                         *)

\* budget ? (monthlySpending / Number(budget.limit_amount)) * 100 : 0
\* (a budget's limit is not zero: handleSetBudget sends positive amounts of a
\* cent at least)
percentage ==
    IF budget # Null
    THEN Times(Quotient(monthlySpending, NumberOf(budget.limit_amount)), 100)
    ELSE Zero

\* percentage > 100
isOverBudget == Greater(percentage, 100)

\* percentage > 80 && percentage <= 100
isNearLimit == Greater(percentage, 80) /\ AtMost(percentage, 100)

\* {isOverBudget && (<Alert variant="destructive">...)} inside budget ? ...
ShowsOverAlert == budget # Null /\ isOverBudget

\* {isNearLimit && !isOverBudget && (<Alert>...)} inside budget ? ...
ShowsNearAlert == budget # Null /\ isNearLimit /\ ~isOverBudget

\* What the card shows: the "No budget set" branch, or which alert.
BudgetState ==
    IF budget = Null THEN "unset"
    ELSE IF ShowsOverAlert THEN "over"
    ELSE IF ShowsNearAlert THEN "near"
    ELSE "normal"

\* Math.min(x, k) for a whole number k.
Min(x, k) == IF AtMost(x, k) THEN x ELSE DoubleOf(k)

\* The progress bar with the percentage passed on as it is.
ProgressValueUnclamped == percentage

\* <Progress value={Math.min(percentage, 100)} />
ProgressValue == Min(percentage, 100)

\* {percentage.toFixed(1)}% used
PercentageText == ToFixed(percentage, 1)

\* ${monthlySpending.toFixed(2)} of ...
SpendingText == ToFixed(monthlySpending, 2)

\* ${(monthlySpending - Number(budget.limit_amount)).toFixed(2)}
OverageText == ToFixed(Minus(monthlySpending, NumberOf(budget.limit_amount)), 2)

\* ${(Number(budget.limit_amount) - monthlySpending).toFixed(2)} remaining.
RemainingText == ToFixed(Minus(NumberOf(budget.limit_amount), monthlySpending), 2)

----------------------------------------------------------------------------
(* BudgetTracker: its fetches and handleSetBudget, step by step.           *)

\* Handlers the user starts in one behaviour: of one component alone, and
\* of the whole page.
MaxGestures == 2
MaxPageGestures == 1

\* What the user types into the budget field.
BudgetInputs == {<<>>, <<"0">>, <<"5">>, <<"0", ".", "5">>}

\* A bag with one more, or one less, copy of x: an async call goes to its
\* await, or comes back from it. Calls and answers that look alike stay
\* apart: each has its own continuation.
Put(bag, x) == bag (+) SetToBag({x})
Take(bag, x) == bag (-) SetToBag({x})

\* The fetches in flight: whether the mount effect has run, the requests the
\* store has not answered, and the answers not yet received (of fetchBudget
\* and of fetchMonthlySpending).
NoFetches == [mounted |-> TRUE, sent |-> EmptyBag, budgets |-> EmptyBag,
              amounts |-> EmptyBag]
BeforeMount == [NoFetches EXCEPT !.mounted = FALSE]

\* fetchBudget(), up to the await: the request for the month of now, with
\* the token of the session it is sent in.
FetchBudgetRequest(z, t, uid) ==
    [kind |-> "budget", arg |-> MonthString(z, t), uid |-> uid]

\* fetchMonthlySpending(), up to the await.
FetchMonthlySpendingRequest(z, t, uid) ==
    [kind |-> "spending", arg |-> MonthString(z, t), uid |-> uid]

\* useEffect(() => { fetchBudget(); fetchMonthlySpending(); }, [])
BudgetTrackerEffect ==
    /\ ~btFetches.mounted
    /\ btFetches' = [btFetches EXCEPT
                       !.mounted = TRUE,
                       !.sent = Put(Put(@, FetchBudgetRequest(zone, now, session)),
                                    FetchMonthlySpendingRequest(zone, now, session))]

BudgetTrackerMount ==
    /\ BudgetTrackerEffect
    /\ UNCHANGED <<envVars, storeVars, dashVars, budget, monthlySpending, btDialogOpen,
                   budgetAmount, btCalls, listVars, edVars, toast, gestures>>

\* The store answers a fetchBudget request. An answer without data (no row
\* of that month, or a failed request) leaves the component as it is.
FetchBudgetQuery ==
    /\ \E req \in BagToSet(btFetches.sent) :
         /\ req.kind = "budget"
         /\ \E failed \in BOOLEAN :
              LET data == IF failed THEN Null
                          ELSE SelectBudget(budgetsTbl, req.uid, req.arg)
              IN  btFetches' = [btFetches EXCEPT
                                  !.sent = Take(@, req),
                                  !.budgets = IF data = Null THEN @ ELSE Put(@, data)]
    /\ UNCHANGED <<envVars, storeVars, dashVars, budget, monthlySpending, btDialogOpen,
                   budgetAmount, btCalls, listVars, edVars, toast, gestures>>

\* fetchBudget after the await: if (data) { setBudget(data);
\* setBudgetAmount(data.limit_amount.toString()); }
FetchBudgetResume ==
    /\ \E data \in BagToSet(btFetches.budgets) :
         /\ budget' = data
         /\ budgetAmount' = NumberToString(data.limit_amount)
         /\ btFetches' = [btFetches EXCEPT !.budgets = Take(@, data)]
    /\ UNCHANGED <<envVars, storeVars, dashVars, monthlySpending, btDialogOpen, btCalls,
                   listVars, edVars, toast, gestures>>

\* The store answers a fetchMonthlySpending request; a failed request has no
\* data and leaves the component as it is.
FetchMonthlySpendingQuery ==
    /\ \E req \in BagToSet(btFetches.sent) :
         /\ req.kind = "spending"
         /\ \/ btFetches' = [btFetches EXCEPT !.sent = Take(@, req)]
            \/ \E data \in SelectAmountsSince(expensesTbl, req.uid, req.arg) :
                 btFetches' = [btFetches EXCEPT !.sent = Take(@, req),
                                                !.amounts = Put(@, data)]
    /\ UNCHANGED <<envVars, storeVars, dashVars, budget, monthlySpending, btDialogOpen,
                   budgetAmount, btCalls, listVars, edVars, toast, gestures>>

\* fetchMonthlySpending after the await: setMonthlySpending(total).
FetchMonthlySpendingResume ==
    /\ \E data \in BagToSet(btFetches.amounts) :
         /\ monthlySpending' = ReduceAmount(data, Zero)
         /\ btFetches' = [btFetches EXCEPT !.amounts = Take(@, data)]
    /\ UNCHANGED <<envVars, storeVars, dashVars, budget, btDialogOpen, budgetAmount, btCalls,
                   listVars, edVars, toast, gestures>>

\* onClick={() => setDialogOpen(true)}: "Set Budget" / "Update Budget".
OpenBudgetDialog ==
    /\ btFetches.mounted
    /\ btDialogOpen' = TRUE
    /\ UNCHANGED <<envVars, storeVars, dashVars, budget, monthlySpending, budgetAmount,
                   btCalls, btFetches, listVars, edVars, toast, gestures>>

\* Cancel, or the dialog's onOpenChange(false).
CloseBudgetDialog ==
    /\ btDialogOpen
    /\ btDialogOpen' = FALSE
    /\ UNCHANGED <<envVars, storeVars, dashVars, budget, monthlySpending, budgetAmount,
                   btCalls, btFetches, listVars, edVars, toast, gestures>>

\* The user types into the budget field:
\* onChange={(e) => setBudgetAmount(e.target.value)}
SetBudgetAmount ==
    /\ btDialogOpen
    /\ \E str \in BudgetInputs : budgetAmount' = str
    /\ UNCHANGED <<envVars, storeVars, dashVars, budget, monthlySpending, btDialogOpen,
                   btCalls, btFetches, listVars, edVars, toast, gestures>>

\* InvalidBudgetAmount letting zero through.
InvalidBudgetAmountBelowZero(amount) == IsNaN(amount) \/ (~amount.nan /\ amount.value < 0)

\* isNaN(amount) || amount <= 0
InvalidBudgetAmount(amount) == IsNaN(amount) \/ LeqZero(amount)

\* A call of handleSetBudget at its first await: the amount and the month it
\* took, and the session getUser() was called in. user_id is the user it
\* gets, uid the user its upsert is sent as.
SetBudgetCall(amount, month, asked) ==
    [pc |-> "getUser", amount |-> amount, month |-> month, asked |-> asked,
     user_id |-> NullId, uid |-> NullId, error |-> FALSE]

\* The form is submitted: handleSetBudget up to its first await. The field
\* is parsed and checked; a valid amount goes on to supabase.auth.getUser().
\* Nothing keeps the form from being submitted again while a call is at an
\* await.
HandleSetBudgetSubmit ==
    /\ btDialogOpen
    /\ gestures > 0
    /\ gestures' = gestures - 1
    /\ LET amount == ParseFloat(budgetAmount)
       IN  IF InvalidBudgetAmount(amount)
           THEN /\ toast' = ToastError("Please enter a valid amount")
                /\ UNCHANGED btCalls
           ELSE /\ btCalls' = Put(btCalls, SetBudgetCall(amount, MonthString(zone, now),
                                                         session))
                /\ UNCHANGED toast
    /\ UNCHANGED <<envVars, storeVars, dashVars, budget, monthlySpending, btDialogOpen,
                   budgetAmount, btFetches, listVars, edVars>>

\* The users getUser() can resolve to: the user of the session it was
\* called in, or, when the session has ended since, no user.
GetUser(asked) == {asked, session}

\* getUser() resolves: if (!user) return; otherwise the upsert is sent, with
\* the token of the session as it is now.
HandleSetBudgetGotUser ==
    /\ \E call \in BagToSet(btCalls) :
         /\ call.pc = "getUser"
         /\ \E user \in GetUser(call.asked) :
              btCalls' = IF user = NoUser THEN Take(btCalls, call)
                         ELSE Put(Take(btCalls, call),
                                  [call EXCEPT !.pc = "upsert", !.user_id = user,
                                               !.uid = session])
    /\ UNCHANGED <<envVars, storeVars, dashVars, budget, monthlySpending, btDialogOpen,
                   budgetAmount, btFetches, listVars, edVars, toast, gestures>>

\* The row handleSetBudget upserts, as the store keeps it.
BudgetRow(call) ==
    [user_id |-> call.user_id, month |-> call.month,
     limit_amount |-> Decimal2(call.amount)]

\* The store takes the upsert: it is refused when the policies do not let
\* the request's user write the row, or when the request fails.
HandleSetBudgetUpsert ==
    /\ \E call \in BagToSet(btCalls) :
         /\ call.pc = "upsert"
         /\ \E failed \in BOOLEAN :
              LET refused == failed \/ ~CanWriteBudget(call.uid, BudgetRow(call))
              IN  /\ budgetsTbl' = IF refused THEN budgetsTbl
                                   ELSE UpsertBudget(budgetsTbl, BudgetRow(call))
                  /\ btCalls' = Put(Take(btCalls, call),
                                    [call EXCEPT !.pc = "upserted", !.error = refused])
    /\ UNCHANGED <<envVars, expensesTbl, nextId, dashVars, budget, monthlySpending,
                   btDialogOpen, budgetAmount, btFetches, listVars, edVars, toast, gestures>>

\* handleSetBudget after the upsert: the error toast, or the success toast,
\* setDialogOpen(false) and fetchBudget().
HandleSetBudgetResume ==
    /\ \E call \in BagToSet(btCalls) :
         /\ call.pc = "upserted"
         /\ btCalls' = Take(btCalls, call)
         /\ IF call.error
            THEN /\ toast' = ToastError("Failed to set budget")
                 /\ UNCHANGED <<btDialogOpen, btFetches>>
            ELSE /\ toast' = ToastSuccess("Budget set successfully")
                 /\ btDialogOpen' = FALSE
                 /\ btFetches' = [btFetches EXCEPT
                                    !.sent = Put(@, FetchBudgetRequest(zone, now, session))]
    /\ UNCHANGED <<envVars, storeVars, dashVars, budget, monthlySpending, budgetAmount,
                   listVars, edVars, gestures>>

\* The session ends (sign-out in another tab, expiry).
SignOut ==
    /\ session # NoUser
    /\ session' = NoUser
    /\ UNCHANGED <<now, zone, storeVars, dashVars, btVars, listVars, edVars, toast, gestures>>

----------------------------------------------------------------------------
(* The store: reading and writing public.expenses for the list and form.   *)

\* select(`*, expense_categories (name, color, icon)`)
WithCategoryIcon(row) ==
    [id |-> row.id, user_id |-> row.user_id, category_id |-> row.category_id,
     amount |-> row.amount, description |-> row.description, date |-> row.date,
     expense_categories |->
        IF row.category_id = NullId THEN Null ELSE Categories[row.category_id]]

ListLimit == 50

\* .limit(n)
Limit(seq, n) == IF Len(seq) <= n THEN seq ELSE SubSeq(seq, 1, n)

\* The answers the query of fetchExpenses may return to user uid.
SelectExpenseList(tbl, uid) ==
    {Limit(seq, ListLimit) :
        seq \in OrderByDateDesc({WithCategoryIcon(r) :
                                   r \in {x \in tbl : CanViewExpense(uid, x)}})}

\* "Users can insert own expenses": WITH CHECK (auth.uid() = user_id)
CanInsertExpense(uid, row) == uid = row.user_id
\* "Users can update own expenses" / "Users can delete own expenses"
CanChangeExpense(uid, row) == uid = row.user_id

\* .update({...}).eq("id", id): the rows the session may update take the
\* new values, the amount as the column keeps it.
UpdateExpenses(tbl, uid, id, v) ==
    {IF r.id = id /\ CanChangeExpense(uid, r)
     THEN [r EXCEPT !.amount = Decimal2(v.amount), !.description = v.description,
                    !.category_id = v.category_id, !.date = v.date]
     ELSE r : r \in tbl}

\* .delete().eq("id", id): the rows the session may delete go.
DeleteExpenses(tbl, uid, id) ==
    {r \in tbl : ~(r.id = id /\ CanChangeExpense(uid, r))}

\* The rows an update or delete by id reaches.
Reached(tbl, uid, id) == {r \in tbl : r.id = id /\ CanChangeExpense(uid, r)}

----------------------------------------------------------------------------
(* ExpenseList.                                                            *)

\* No fetchExpenses in flight; before the mount effect has run. A request
\* not yet answered is the user its token names; the answers not yet
\* received are kept one by one.
NoListFetches == [mounted |-> TRUE, sent |-> EmptyBag, replied |-> EmptyBag]
ListBeforeMount == [NoListFetches EXCEPT !.mounted = FALSE]

\* ExpenseDialog's initial and reset formData; the date is
\* new Date().toISOString().split("T")[0].
BlankForm(t) ==
    [amount |-> <<>>, description |-> "", category_id |-> "", date |-> ToISODate(t)]

\* ExpenseDialog's effect on a new expense prop: the form takes its values.
FormOf(expense) ==
    [amount      |-> NumberToString(expense.amount),
     description |-> expense.description,
     category_id |-> IF expense.category_id = NullId THEN "" ELSE expense.category_id,
     date        |-> expense.date]

\* useEffect(() => { fetchExpenses(); channel...subscribe() }, [])
ExpenseListEffect ==
    /\ ~listFetches.mounted
    /\ listFetches' = [listFetches EXCEPT !.mounted = TRUE, !.sent = Put(@, session)]

ExpenseListMount ==
    /\ ExpenseListEffect
    /\ UNCHANGED <<envVars, storeVars, dashVars, btVars, expenses, dialogOpen,
                   editingExpense, editingListed, notifications, delCalls, edVars,
                   toast, gestures>>

\* The store answers a fetchExpenses request, in one of the orders the query
\* allows; a failed request has no data and leaves the list as it is.
FetchExpensesQuery ==
    /\ \E uid \in BagToSet(listFetches.sent) :
         \/ listFetches' = [listFetches EXCEPT !.sent = Take(@, uid)]
         \/ \E data \in SelectExpenseList(expensesTbl, uid) :
              listFetches' = [listFetches EXCEPT !.sent = Take(@, uid),
                                                 !.replied = Put(@, [data |-> data])]
    /\ UNCHANGED <<envVars, storeVars, dashVars, btVars, expenses, dialogOpen,
                   editingExpense, editingListed, notifications, delCalls, edVars,
                   toast, gestures>>

\* fetchExpenses after the await: if (data) setExpenses(data). The rows of
\* the answer are new objects: the expense being edited is none of them.
FetchExpensesResume ==
    /\ \E rep \in BagToSet(listFetches.replied) :
         /\ expenses' = rep.data
         /\ listFetches' = [listFetches EXCEPT !.replied = Take(@, rep)]
    /\ editingListed' = FALSE
    /\ UNCHANGED <<envVars, storeVars, dashVars, btVars, dialogOpen, editingExpense,
                   notifications, delCalls, edVars, toast, gestures>>

\* The channel's callback: a change notification arrives, () => fetchExpenses().
RealtimeChange ==
    /\ notifications > 0
    /\ notifications' = notifications - 1
    /\ listFetches' = [listFetches EXCEPT !.sent = Put(@, session)]
    /\ UNCHANGED <<envVars, storeVars, dashVars, btVars, expenses, dialogOpen,
                   editingExpense, editingListed, delCalls, edVars, toast, gestures>>

\* The store tells the subscribed list of a change to public.expenses.
Notify(changed) ==
    IF changed /\ listFetches.mounted THEN notifications + 1 ELSE notifications

\* "Add Expense": onClick={() => setDialogOpen(true)}
AddExpenseClick ==
    /\ listFetches.mounted
    /\ dialogOpen' = TRUE
    /\ UNCHANGED <<envVars, storeVars, dashVars, btVars, expenses, editingExpense,
                   editingListed, listFetches, notifications, delCalls, edVars, toast,
                   gestures>>

\* The expense prop is the object it was: the object being edited is still
\* one of the list's, and it is this row. (The effect's dependency [expense]
\* is compared by identity; the rows of one list differ in their ids.)
SameObject(row) == editingExpense # Null /\ editingListed /\ editingExpense = row

\* handleEdit(expense) on a row of the list; ExpenseDialog's effect then
\* fills the form from the expense prop, unless the prop is the same object.
HandleEdit ==
    /\ \E i \in 1..Len(expenses) :
         /\ editingExpense' = expenses[i]
         /\ editingListed' = TRUE
         /\ dialogOpen' = TRUE
         /\ formData' = IF SameObject(expenses[i]) THEN formData
                        ELSE FormOf(expenses[i])
    /\ UNCHANGED <<envVars, storeVars, dashVars, btVars, expenses, listFetches,
                   notifications, delCalls, edCalls, toast, gestures>>

\* DialogClosed without setEditingExpense(null).
DialogClosedKeepsExpense ==
    /\ dialogOpen' = FALSE
    /\ UNCHANGED <<editingExpense, editingListed, formData>>

\* handleDialogClose(): setDialogOpen(false); setEditingExpense(null); the
\* dialog's effect resets the form when the expense prop becomes null.
DialogClosed ==
    /\ dialogOpen' = FALSE
    /\ editingExpense' = Null
    /\ editingListed' = FALSE
    /\ formData' = IF editingExpense = Null THEN formData ELSE BlankForm(now)

\* Cancel, Escape or a click outside: onOpenChange(false).
HandleDialogClose ==
    /\ dialogOpen
    /\ DialogClosed
    /\ UNCHANGED <<envVars, storeVars, dashVars, btVars, expenses, listFetches,
                   notifications, delCalls, edCalls, toast, gestures>>

\* A call of handleDelete at its await: the id it deletes and the user its
\* request is sent as.
DeleteCall(id, uid) == [pc |-> "delete", id |-> id, uid |-> uid, error |-> FALSE]

\* handleDelete(id) up to the await: the delete request is sent. Nothing
\* keeps a row's button from being clicked while a delete is at its await.
HandleDeleteStart ==
    /\ gestures > 0
    /\ gestures' = gestures - 1
    /\ \E i \in 1..Len(expenses) :
         delCalls' = Put(delCalls, DeleteCall(expenses[i].id, session))
    /\ UNCHANGED <<envVars, storeVars, dashVars, btVars, expenses, dialogOpen,
                   editingExpense, editingListed, listFetches, notifications, edVars,
                   toast>>

\* The store takes the delete: a failed request changes nothing; otherwise
\* the rows the request's user may delete go, without error even when there
\* are none.
HandleDeleteStore ==
    /\ \E call \in BagToSet(delCalls) :
         /\ call.pc = "delete"
         /\ \E failed \in BOOLEAN :
              /\ expensesTbl' = IF failed THEN expensesTbl
                                ELSE DeleteExpenses(expensesTbl, call.uid, call.id)
              /\ notifications' =
                   Notify(~failed /\ Reached(expensesTbl, call.uid, call.id) # {})
              /\ delCalls' = Put(Take(delCalls, call),
                                 [call EXCEPT !.pc = "deleted", !.error = failed])
    /\ UNCHANGED <<envVars, budgetsTbl, nextId, dashVars, btVars, expenses, dialogOpen,
                   editingExpense, editingListed, listFetches, edVars, toast, gestures>>

\* HandleDeleteResume ignoring the error of the delete.
HandleDeleteResumeIgnoresError ==
    /\ \E call \in BagToSet(delCalls) :
         /\ call.pc = "deleted"
         /\ delCalls' = Take(delCalls, call)
         /\ toast' = ToastSuccess("Expense deleted")
    /\ UNCHANGED <<envVars, storeVars, dashVars, btVars, expenses, dialogOpen,
                   editingExpense, editingListed, listFetches, notifications, edVars,
                   gestures>>

\* handleDelete after the await: the error or the success toast.
HandleDeleteResume ==
    /\ \E call \in BagToSet(delCalls) :
         /\ call.pc = "deleted"
         /\ delCalls' = Take(delCalls, call)
         /\ toast' = IF call.error THEN ToastError("Failed to delete expense")
                     ELSE ToastSuccess("Expense deleted")
    /\ UNCHANGED <<envVars, storeVars, dashVars, btVars, expenses, dialogOpen,
                   editingExpense, editingListed, listFetches, notifications, edVars,
                   gestures>>

----------------------------------------------------------------------------
(* ExpenseDialog: expenseSchema and handleSubmit, step by step.            *)

MaxDescription == 200

RECURSIVE Repeat(_, _)
Repeat(str, n) ==
    IF n = 0 THEN ""
    ELSE IF n % 2 = 0 THEN LET half == Repeat(str, n \div 2) IN half \o half
    ELSE str \o Repeat(str, n - 1)

\* z.string().uuid(): the ids of the categories are the uuids of the model.
IsUuid(str) == str \in CategoryIds

\* expenseSchema.parse(input): the messages of the issues, field by field in
\* the order of the schema; none when the input is valid.
AmountIssuesAllowsZero(amount) ==
    IF IsNaN(amount) THEN <<"Expected number, received nan">>
    ELSE IF amount.value < 0 THEN <<"Amount must be positive">>
    ELSE <<>>

AmountIssues(amount) ==
    IF IsNaN(amount) THEN <<"Expected number, received nan">>
    ELSE IF amount.value <= 0 THEN <<"Amount must be positive">>
    ELSE <<>>

DescriptionIssues(description) ==
    IF Len(description) < 1 THEN <<"Description is required">>
    ELSE IF Len(description) > MaxDescription
         THEN <<"String must contain at most 200 character(s)">>
    ELSE <<>>

CategoryIssues(category_id) ==
    IF IsUuid(category_id) THEN <<>> ELSE <<"Please select a category">>

\* A date field holds "" (Null here) or a date.
DateIssues(date) == IF date = Null THEN <<"Date is required">> ELSE <<>>

SchemaIssues(input) ==
    AmountIssues(input.amount) \o DescriptionIssues(input.description)
        \o CategoryIssues(input.category_id) \o DateIssues(input.date)

\* { ...formData, amount: parseFloat(formData.amount) }
SchemaInput(form) ==
    [amount |-> ParseFloat(form.amount), description |-> form.description,
     category_id |-> form.category_id, date |-> form.date]

\* What expenseSchema.parse returns for a valid input.
Validated(form) ==
    [amount |-> ParseFloat(form.amount), description |-> form.description,
     category_id |-> form.category_id, date |-> form.date]

\* What the user enters, field by field: values that pass the schema and
\* values that fail each of its checks. The Select offers the categories and
\* cannot be emptied.
AmountInputs == {<<>>, <<"0">>, <<"0", ".", "5">>, <<"-", "1">>}
DescriptionInputs == {"", "Coffee", Repeat("x", MaxDescription + 1)}
CategoryInputs == {"c-food"}
DateInputs == {Null, Date(2024, 3, 31)}

\* onChange={(e) => setFormData({ ...formData, amount: e.target.value })}
AmountChange ==
    /\ dialogOpen
    /\ \E value \in AmountInputs : formData' = [formData EXCEPT !.amount = value]
    /\ UNCHANGED <<envVars, storeVars, dashVars, btVars, listVars, edCalls, toast, gestures>>

\* onChange={(e) => setFormData({ ...formData, description: e.target.value })}
DescriptionChange ==
    /\ dialogOpen
    /\ \E value \in DescriptionInputs : formData' = [formData EXCEPT !.description = value]
    /\ UNCHANGED <<envVars, storeVars, dashVars, btVars, listVars, edCalls, toast, gestures>>

\* onValueChange={(value) => setFormData({ ...formData, category_id: value })}
CategoryChange ==
    /\ dialogOpen
    /\ \E value \in CategoryInputs : formData' = [formData EXCEPT !.category_id = value]
    /\ UNCHANGED <<envVars, storeVars, dashVars, btVars, listVars, edCalls, toast, gestures>>

\* onChange={(e) => setFormData({ ...formData, date: e.target.value })}
DateChange ==
    /\ dialogOpen
    /\ \E value \in DateInputs : formData' = [formData EXCEPT !.date = value]
    /\ UNCHANGED <<envVars, storeVars, dashVars, btVars, listVars, edCalls, toast, gestures>>

\* A call of handleSubmit at its first await: what it validated, the expense
\* prop it was submitted with, and the session getUser() was called in.
\* user_id is the user it gets, uid the user its request is sent as.
SubmitCall(validated, expense, asked) ==
    [pc |-> "getUser", validated |-> validated, expense |-> expense, asked |-> asked,
     user_id |-> NullId, uid |-> NullId, error |-> FALSE]

\* The form is submitted: handleSubmit up to its first await. The form is
\* parsed; an invalid one shows the first issue's message, a valid one goes
\* on to getUser(). Nothing keeps the form from being submitted again while
\* a call is at an await.
HandleSubmitStart ==
    /\ dialogOpen
    /\ gestures > 0
    /\ gestures' = gestures - 1
    /\ LET issues == SchemaIssues(SchemaInput(formData))
       IN  IF issues # <<>>
           THEN /\ toast' = ToastError(issues[1])
                /\ UNCHANGED edCalls
           ELSE /\ edCalls' = Put(edCalls, SubmitCall(Validated(formData),
                                                      editingExpense, session))
                /\ UNCHANGED toast
    /\ UNCHANGED <<envVars, storeVars, dashVars, btVars, listVars, formData>>

\* getUser() resolves: without a user, "Not authenticated" is thrown and
\* shown; otherwise the update (expense given) or the insert is sent, with
\* the token of the session as it is now.
HandleSubmitGotUser ==
    /\ \E call \in BagToSet(edCalls) :
         /\ call.pc = "getUser"
         /\ \E user \in GetUser(call.asked) :
              IF user = NoUser
              THEN /\ edCalls' = Take(edCalls, call)
                   /\ toast' = ToastError("Not authenticated")
              ELSE /\ edCalls' =
                        Put(Take(edCalls, call),
                            [call EXCEPT
                               !.pc = IF call.expense # Null THEN "update" ELSE "insert",
                               !.user_id = user, !.uid = session])
                   /\ UNCHANGED toast
    /\ UNCHANGED <<envVars, storeVars, dashVars, btVars, listVars, formData, gestures>>

\* The row handleSubmit inserts, as the store keeps it; the store gives it
\* its id.
InsertedRow(call, id) ==
    [id |-> id, user_id |-> call.user_id, category_id |-> call.validated.category_id,
     amount |-> Decimal2(call.validated.amount),
     description |-> call.validated.description,
     date |-> call.validated.date]

\* The store takes the insert: it is refused when the policy does not let the
\* request's user insert the row, or when the request fails.
HandleSubmitInsert ==
    /\ \E call \in BagToSet(edCalls) :
         /\ call.pc = "insert"
         /\ \E failed \in BOOLEAN :
              LET row     == InsertedRow(call, nextId)
                  refused == failed \/ ~CanInsertExpense(call.uid, row)
              IN  /\ expensesTbl' = IF refused THEN expensesTbl
                                    ELSE expensesTbl \cup {row}
                  /\ nextId' = IF refused THEN nextId ELSE nextId + 1
                  /\ notifications' = Notify(~refused)
                  /\ edCalls' = Put(Take(edCalls, call),
                                    [call EXCEPT !.pc = "stored", !.error = refused])
    /\ UNCHANGED <<envVars, budgetsTbl, dashVars, btVars, expenses, dialogOpen,
                   editingExpense, editingListed, listFetches, delCalls, formData,
                   toast, gestures>>

\* The store takes the update: a failed request changes nothing; otherwise
\* the rows the request's user may update change, without error when there
\* are none.
HandleSubmitUpdate ==
    /\ \E call \in BagToSet(edCalls) :
         /\ call.pc = "update"
         /\ \E failed \in BOOLEAN :
              /\ expensesTbl' = IF failed THEN expensesTbl
                                ELSE UpdateExpenses(expensesTbl, call.uid,
                                                    call.expense.id, call.validated)
              /\ notifications' =
                   Notify(~failed /\ Reached(expensesTbl, call.uid, call.expense.id) # {})
              /\ edCalls' = Put(Take(edCalls, call),
                                [call EXCEPT !.pc = "stored", !.error = failed])
    /\ UNCHANGED <<envVars, budgetsTbl, nextId, dashVars, btVars, expenses, dialogOpen,
                   editingExpense, editingListed, listFetches, delCalls, formData,
                   toast, gestures>>

\* handleSubmit after the mutation: the error is thrown and shown; otherwise
\* the success toast and onOpenChange(false).
HandleSubmitResume ==
    /\ \E call \in BagToSet(edCalls) :
         /\ call.pc = "stored"
         /\ edCalls' = Take(edCalls, call)
         /\ IF call.error
            THEN /\ toast' = ToastError("(the store's error message)")
                 /\ UNCHANGED <<dialogOpen, editingExpense, editingListed, formData>>
            ELSE /\ toast' = ToastSuccess(IF call.expense # Null
                                          THEN "Expense updated successfully"
                                          ELSE "Expense added successfully")
                 /\ DialogClosed
    /\ UNCHANGED <<envVars, storeVars, dashVars, btVars, expenses, listFetches,
                   notifications, delCalls, gestures>>

----------------------------------------------------------------------------
(* Initial states and specifications.                                      *)

\* A row of another user, which the policies hide from "u1".
ForeignExpense ==
    [id |-> 0, user_id |-> "u2", category_id |-> "c-travel", amount |-> 700,
     description |-> "Train", date |-> Date(2024, 4, 1)]
ForeignBudget == [user_id |-> "u2", month |-> Date(2024, 3, 1), limit_amount |-> 700]

ExpenseRow(id, shape) ==
    [id |-> id, user_id |-> "u1", category_id |-> shape.category_id,
     amount |-> shape.amount, description |-> "Coffee", date |-> shape.date]

\* The tables of up to n rows of "u1", each of one of the shapes, beside the
\* foreign row.
TablesUpTo(n, shapes) ==
    UNION {{{ExpenseRow(i, f[i]) : i \in 1..k} \cup {ForeignExpense} :
              f \in [1..k -> shapes]} : k \in 0..n}

\* Every component as constructed, its mount effect still to run.
Constructed ==
    /\ stats = InitialStats
    /\ dashFetch = DashMounting
    /\ budget = Null
    /\ monthlySpending = Zero
    /\ btDialogOpen = FALSE
    /\ budgetAmount = <<>>
    /\ btCalls = EmptyBag
    /\ btFetches = BeforeMount
    /\ expenses = <<>>
    /\ dialogOpen = FALSE
    /\ editingExpense = Null
    /\ editingListed = FALSE
    /\ listFetches = ListBeforeMount
    /\ notifications = 0
    /\ delCalls = EmptyBag
    /\ formData = BlankForm(now)
    /\ edCalls = EmptyBag
    /\ toast = NoToast

\* The Dashboard alone, over every table, zone and instant of the model.
AggShapes ==
    [category_id : {NullId, "c-food", "c-other"}, amount : Amounts,
     date : ExpenseDates]

InitAgg ==
    /\ now \in Instants
    /\ zone \in Zones
    /\ session = "u1"
    /\ expensesTbl \in TablesUpTo(MaxExp, AggShapes)
    /\ budgetsTbl = {ForeignBudget}
    /\ nextId = Cardinality(expensesTbl)
    /\ gestures = 0
    /\ Constructed

NextAgg ==
    \/ FetchDashboardDataStart
    \/ FetchDashboardDataQuery
    \/ FetchDashboardDataResume

SpecAgg == InitAgg /\ [][NextAgg]_vars

\* The Dashboard alone again, in one zone at one instant, over the tables of
\* up to MaxSummed expenses of one day: the sums of three Numbers and more,
\* which depend on the order of the fetched rows.
MaxSummed == 3

SumShapes ==
    {[category_id |-> c[1], amount |-> c[2], date |-> Date(2024, 4, 1)] :
        c \in {<<NullId, 10>>, <<"c-food", 10>>, <<"c-food", 20>>,
               <<"c-other", 20>>, <<"c-other", 30>>}}

InitSum ==
    /\ now = Instant(2024, 4, 1, 12)
    /\ zone = UTCZone
    /\ session = "u1"
    /\ expensesTbl \in TablesUpTo(MaxSummed, SumShapes)
    /\ budgetsTbl = {ForeignBudget}
    /\ nextId = Cardinality(expensesTbl)
    /\ gestures = 0
    /\ Constructed

SpecSum == InitSum /\ [][NextAgg]_vars

\* The BudgetTracker alone, reading every table and budget of the model:
\* whole amounts up to MaxLimit, in cents, and amounts of cents whose
\* Numbers are rounded (0.10 + 0.20 against 0.30; 0.56 against 0.70).
MaxLimit == 5

WholeAmounts == {100 * k : k \in 1..MaxLimit}

EvalShapes ==
    [category_id : {NullId}, amount : WholeAmounts \cup {10, 20, 56},
     date : {Date(2024, 4, 1)}]
    \cup {[category_id |-> NullId, amount |-> 100, date |-> Date(2024, 3, 31)]}

\* Limits of which a spend is a percentage half-way between two tenths:
\* 1.00 of 16.00 is the Number 6.25; 4.10 of 8.00 is a Number just below
\* 51.25 and 1.10 of 8.00 one just above 13.75.
TieLimits == {800, 1600}

EvalBudgets ==
    {{ForeignBudget}}
    \cup {{ForeignBudget, [user_id |-> "u1", month |-> m, limit_amount |-> l]} :
            m \in {Date(2024, 3, 1)}, l \in WholeAmounts}
    \cup {{ForeignBudget, [user_id |-> "u1", month |-> m, limit_amount |-> l]} :
            m \in {Date(2024, 4, 1)}, l \in WholeAmounts \cup TieLimits \cup {30, 70}}

InitEval ==
    /\ now = Instant(2024, 4, 1, 12)
    /\ zone = UTCZone
    /\ session = "u1"
    /\ expensesTbl \in TablesUpTo(MaxExp, EvalShapes)
    /\ budgetsTbl \in EvalBudgets
    /\ nextId = Cardinality(expensesTbl)
    /\ gestures = 0
    /\ Constructed

NextEval ==
    \/ BudgetTrackerMount
    \/ FetchBudgetQuery
    \/ FetchBudgetResume
    \/ FetchMonthlySpendingQuery
    \/ FetchMonthlySpendingResume

SpecEval == InitEval /\ [][NextEval]_vars

\* The user, the clock and the store of the page: one expense of "u1".
PageStore ==
    /\ now = Instant(2024, 3, 31, 23)
    /\ zone = NewYork
    /\ session = "u1"
    /\ expensesTbl = {ExpenseRow(1, [category_id |-> NullId, amount |-> 100,
                                     date |-> Date(2024, 3, 31)]), ForeignExpense}
    /\ budgetsTbl = {ForeignBudget}
    /\ nextId = 2

\* The page as first shown: every component constructed.
Page == PageStore /\ Constructed

\* The BudgetTracker with its budget form, the user, the store and the
\* clock.
NextBudget ==
    \/ BudgetTrackerMount
    \/ FetchBudgetQuery
    \/ FetchBudgetResume
    \/ FetchMonthlySpendingQuery
    \/ FetchMonthlySpendingResume
    \/ OpenBudgetDialog
    \/ CloseBudgetDialog
    \/ SetBudgetAmount
    \/ HandleSetBudgetSubmit
    \/ HandleSetBudgetGotUser
    \/ HandleSetBudgetUpsert
    \/ HandleSetBudgetResume
    \/ SignOut
    \/ Tick

InitBudget == Page /\ gestures = MaxGestures

SpecBudget == InitBudget /\ [][NextBudget]_vars

\* The ExpenseList with its dialog, and the Dashboard beside it.
NextList ==
    \/ FetchDashboardDataStart
    \/ FetchDashboardDataQuery
    \/ FetchDashboardDataResume
    \/ ExpenseListMount
    \/ FetchExpensesQuery
    \/ FetchExpensesResume
    \/ RealtimeChange
    \/ AddExpenseClick
    \/ HandleEdit
    \/ HandleDialogClose
    \/ HandleDeleteStart
    \/ HandleDeleteStore
    \/ HandleDeleteResume
    \/ AmountChange
    \/ DescriptionChange
    \/ CategoryChange
    \/ DateChange
    \/ HandleSubmitStart
    \/ HandleSubmitGotUser
    \/ HandleSubmitInsert
    \/ HandleSubmitUpdate
    \/ HandleSubmitResume
    \/ SignOut

InitList == Page /\ gestures = MaxPageGestures

SpecList == InitList /\ [][NextList]_vars

\* The ExpenseList with its dialog alone, for a user who stays signed in.
NextForm ==
    \/ ExpenseListMount
    \/ FetchExpensesQuery
    \/ FetchExpensesResume
    \/ RealtimeChange
    \/ AddExpenseClick
    \/ HandleEdit
    \/ HandleDialogClose
    \/ HandleDeleteStart
    \/ HandleDeleteStore
    \/ HandleDeleteResume
    \/ AmountChange
    \/ DescriptionChange
    \/ CategoryChange
    \/ DateChange
    \/ HandleSubmitStart
    \/ HandleSubmitGotUser
    \/ HandleSubmitInsert
    \/ HandleSubmitUpdate
    \/ HandleSubmitResume

SpecForm == InitList /\ [][NextForm]_vars

\* The Dashboard and the BudgetTracker reading the same store at the same
\* time, over every table, zone and instant of the model.
MonthShapes == [category_id : {NullId}, amount : Amounts, date : ExpenseDates]

MonthBudgets ==
    {{ForeignBudget},
     {ForeignBudget, [user_id |-> "u1", month |-> Date(2024, 4, 1), limit_amount |-> 500]}}

InitMonth ==
    /\ now \in Instants
    /\ zone \in Zones
    /\ session = "u1"
    /\ expensesTbl \in TablesUpTo(MaxExp, MonthShapes)
    /\ budgetsTbl \in MonthBudgets
    /\ nextId = Cardinality(expensesTbl)
    /\ gestures = 0
    /\ Constructed

NextMonth ==
    \/ FetchDashboardDataStart
    \/ FetchDashboardDataQuery
    \/ FetchDashboardDataResume
    \/ BudgetTrackerMount
    \/ FetchBudgetQuery
    \/ FetchBudgetResume
    \/ FetchMonthlySpendingQuery
    \/ FetchMonthlySpendingResume

SpecMonth == InitMonth /\ [][NextMonth]_vars

\* The BudgetTracker and the ExpenseList once the reads of their mount
\* effects have been answered and received, nothing in flight.
Shown ==
    /\ stats = InitialStats
    /\ dashFetch = DashMounting
    /\ budget = SelectBudget(budgetsTbl, session, MonthString(zone, now))
    /\ budgetAmount = IF budget = Null THEN <<>>
                      ELSE NumberToString(budget.limit_amount)
    /\ \E data \in SelectAmountsSince(expensesTbl, session, MonthString(zone, now)) :
          monthlySpending = ReduceAmount(data, Zero)
    /\ btDialogOpen = FALSE
    /\ btCalls = EmptyBag
    /\ btFetches = NoFetches
    /\ expenses \in SelectExpenseList(expensesTbl, session)
    /\ dialogOpen = FALSE
    /\ editingExpense = Null
    /\ editingListed = FALSE
    /\ listFetches = NoListFetches
    /\ notifications = 0
    /\ delCalls = EmptyBag
    /\ formData = BlankForm(now)
    /\ edCalls = EmptyBag
    /\ toast = NoToast

\* The components with handlers together, from the page once shown: what
\* the user does, the mutations the handlers send, the reads sent after
\* them (fetchBudget by handleSetBudget, fetchExpenses by the channel's
\* callback) and the end of the session. fetchMonthlySpending is called by
\* the mount effect alone, whose answer the page once shown has received.
Init == PageStore /\ Shown /\ gestures = MaxPageGestures

Next ==
    \/ FetchBudgetQuery
    \/ FetchBudgetResume
    \/ OpenBudgetDialog
    \/ CloseBudgetDialog
    \/ SetBudgetAmount
    \/ HandleSetBudgetSubmit
    \/ HandleSetBudgetGotUser
    \/ HandleSetBudgetUpsert
    \/ HandleSetBudgetResume
    \/ FetchExpensesQuery
    \/ FetchExpensesResume
    \/ RealtimeChange
    \/ AddExpenseClick
    \/ HandleEdit
    \/ HandleDialogClose
    \/ HandleDeleteStart
    \/ HandleDeleteStore
    \/ HandleDeleteResume
    \/ AmountChange
    \/ DescriptionChange
    \/ CategoryChange
    \/ DateChange
    \/ HandleSubmitStart
    \/ HandleSubmitGotUser
    \/ HandleSubmitInsert
    \/ HandleSubmitUpdate
    \/ HandleSubmitResume
    \/ SignOut

Spec == Init /\ [][Next]_vars

----------------------------------------------------------------------------
(* The claims.                                                             *)

\* The sum of the amounts of a set of rows, in cents.
RECURSIVE SumOfRows(_)
SumOfRows(rows) ==
    IF rows = {} THEN 0
    ELSE LET r == CHOOSE x \in rows : TRUE IN r.amount + SumOfRows(rows \ {r})

\* The sum of the amounts of the entries of a sequence, first entry first,
\* as the Numbers add up.
RECURSIVE SumOfEntries(_)
SumOfEntries(seq) ==
    IF seq = <<>> THEN Zero
    ELSE Plus(SumOfEntries(SubSeq(seq, 1, Len(seq) - 1)), seq[Len(seq)].amount)

\* The Number x is the amount of cents to the cent: x.toFixed(2) writes it.
Shows(x, cents) == ToFixed(x, 2) = [negative |-> FALSE, units |-> cents]

\* The rows of the store the session sees, and the bucket a row belongs to.
VisibleRows == {r \in expensesTbl : r.user_id = session}
BucketOf(row) ==
    IF row.category_id = NullId THEN "Other" ELSE Categories[row.category_id].name

\* fetchDashboardData has set the stats from a fetched sequence.
StatsComputed == dashFetch.pc = "done" /\ stats.dailyTrend # <<>>

\* C1 as claimed: once fetchDashboardData has set the stats, the amounts of
\* the entries of categorySummary add up to totalExpenses, which is the sum
\* over all fetched expenses; no two entries share a name, and each entry's
\* amount is the sum of exactly the expenses of its bucket (the category
\* name, or "Other" for an expense without category).
C1_CategoriesPartitionTotal ==
    StatsComputed =>
        /\ SumOfEntries(stats.categorySummary) = stats.totalExpenses
        /\ Shows(stats.totalExpenses, SumOfRows(VisibleRows))
        /\ \A i, j \in 1..Len(stats.categorySummary) :
              stats.categorySummary[i].category = stats.categorySummary[j].category
                 => i = j
        /\ \A r \in VisibleRows :
              \E i \in 1..Len(stats.categorySummary) :
                 stats.categorySummary[i].category = BucketOf(r)
        /\ \A i \in 1..Len(stats.categorySummary) :
              Shows(stats.categorySummary[i].amount,
                    SumOfRows({r \in VisibleRows :
                                 BucketOf(r) = stats.categorySummary[i].category}))

\* The calendar date the client's wall clock shows at instant t.
LocalDate(z, t) == CivilFromDays(LocalTime(z, t) \div 24)

\* C3 as claimed: once the stats are set, the trend has exactly 7 entries, on
\* 7 consecutive calendar days in chronological order, the last of them
\* today (by the client's calendar or by UTC's), each with the sum of the
\* expenses dated that day.
C3_SevenContiguousDays ==
    StatsComputed =>
        /\ Len(stats.dailyTrend) = 7
        /\ \A i \in 1..6 :
              DayOf(stats.dailyTrend[i + 1].date) = DayOf(stats.dailyTrend[i].date) + 1
        /\ stats.dailyTrend[7].date \in {LocalDate(zone, now), ToISODate(now)}
        /\ \A i \in 1..7 :
              Shows(stats.dailyTrend[i].amount,
                    SumOfRows({r \in VisibleRows : r.date = stats.dailyTrend[i].date}))

\* The spending the card writes, in cents.
SpendCents == SpendingText.units

\* C2 as claimed: with a budget, the card is "over" exactly when
\* spend > limit, "near" exactly when 0.8 * limit < spend <= limit, "normal"
\* otherwise (so spend / limit = 0.80 is "normal" and spend / limit = 1.00
\* is "near"); without a budget it is "unset" and shows neither alert.
C2_BudgetClassification ==
    /\ budget = Null =>
          BudgetState = "unset" /\ ~ShowsOverAlert /\ ~ShowsNearAlert
    /\ budget # Null =>
          LET spend == SpendCents
              limit == budget.limit_amount
          IN  /\ limit > 0
              /\ BudgetState \in {"over", "near", "normal"}
              /\ (BudgetState = "over") <=> (spend > limit)
              /\ (BudgetState = "near") <=> (5 * spend > 4 * limit /\ spend <= limit)
              /\ (BudgetState = "normal") <=> (5 * spend <= 4 * limit)
              /\ ShowsOverAlert <=> (BudgetState = "over")
              /\ ShowsNearAlert <=> (BudgetState = "near")

\* The budget rows of one key.
BudgetRowsOf(tbl, uid, month) == {r \in tbl : r.user_id = uid /\ r.month = month}

\* A step that takes one call of a bag from one await to the next, and one
\* that ends it.
Moves(before, after, call, next) == after = Put(Take(before, call), next)
Ends(before, after, call) == after = Take(before, call)

\* A step in which the store accepts the upsert of this call of
\* handleSetBudget.
UpsertAccepted(call) ==
    /\ call.pc = "upsert"
    /\ \E next \in BagToSet(btCalls') :
          next.pc = "upserted" /\ ~next.error /\ Moves(btCalls, btCalls', call, next)

\* C6: there is never more than one budget row per (user, month), and every
\* budget row's month is the first day of a month; an upsert the store
\* accepts leaves exactly one row for its (user, month), holding the amount
\* submitted (the second value when the key had a row already), and leaves
\* the rows of the other keys alone.
C6_UpsertReplaces ==
    /\ [](\A a, b \in budgetsTbl :
             /\ a.month.d = 1
             /\ (a.user_id = b.user_id /\ a.month = b.month) => a = b)
    /\ [][\A call \in BagToSet(btCalls) : UpsertAccepted(call) =>
            /\ BudgetRowsOf(budgetsTbl', call.user_id, call.month) =
                 {[user_id |-> call.user_id, month |-> call.month,
                   limit_amount |-> Decimal2(call.amount)]}
            /\ budgetsTbl' \ BudgetRowsOf(budgetsTbl', call.user_id, call.month) =
                 budgetsTbl \ BudgetRowsOf(budgetsTbl, call.user_id, call.month)
            /\ call.month.d = 1]_vars

\* C6 witness: a second upsert for a key has been accepted: the card still
\* shows the budget set first, and the key's one row holds the second amount.
C6_Witness ==
    /\ budget # Null
    /\ \E call \in BagToSet(btCalls) :
          /\ call.pc = "upserted" /\ ~call.error
          /\ budget.user_id = call.user_id /\ budget.month = call.month
          /\ budget.limit_amount # Decimal2(call.amount)
          /\ BudgetRowsOf(budgetsTbl, call.user_id, call.month) =
               {[budget EXCEPT !.limit_amount = Decimal2(call.amount)]}

\* The text of the budget field is no number, or no strictly positive one.
NotAPositiveNumber(str) == ParseFloat(str).nan \/ ParseFloat(str).value <= 0

\* A step in which the budget form is submitted.
BudgetSubmitted == btDialogOpen /\ gestures' = gestures - 1

\* C7: submitting the budget form with an amount that is no number or is not
\* strictly positive shows "Please enter a valid amount", starts neither the
\* user lookup nor the upsert (no call of the handler is added to those in
\* flight, no fetch is sent), and leaves the budget rows, the displayed
\* budget, the field and the dialog's open flag as they were.
C7_InvalidBudgetRejected ==
    [][(BudgetSubmitted /\ NotAPositiveNumber(budgetAmount)) =>
          /\ toast' = ToastError("Please enter a valid amount")
          /\ UNCHANGED <<btCalls, budgetsTbl, budget, monthlySpending, btDialogOpen,
                         budgetAmount, btFetches>>]_vars

\* C7 witness: the form was submitted with "0", the error is shown and the
\* dialog is still open with no call in flight.
C7_Witness ==
    /\ toast = ToastError("Please enter a valid amount")
    /\ budgetAmount = <<"0">>
    /\ btDialogOpen
    /\ btCalls = EmptyBag

\* A step in which a handler finishes an expense mutation the store accepted.
ExpenseMutationCompletes ==
    \/ \E call \in BagToSet(edCalls) :
          call.pc = "stored" /\ ~call.error /\ Ends(edCalls, edCalls', call)
    \/ \E call \in BagToSet(delCalls) :
          call.pc = "deleted" /\ ~call.error /\ Ends(delCalls, delCalls', call)

\* The list shows the store's rows, or a read that will bring them is under
\* way: a request not yet answered, a notification not yet handled, or an
\* answer with these rows not yet received.
ListCurrentOrPending ==
    \/ expenses \in SelectExpenseList(expensesTbl, session)
    \/ listFetches.sent # EmptyBag
    \/ notifications > 0
    \/ \E rep \in BagToSet(listFetches.replied) :
          rep.data \in SelectExpenseList(expensesTbl, session)

\* The dashboard's total is the store's, or a read that will bring it is
\* under way.
DashboardCurrentOrPending ==
    \/ Shows(stats.totalExpenses, SumOfRows(VisibleRows))
    \/ dashFetch.pc \in {"mount", "sent"}
    \/ /\ dashFetch.pc = "replied"
       /\ dashFetch.hasData
       /\ dashFetch.data \in SelectExpenses(expensesTbl, session)

\* C4 as claimed: when a handler has finished an insert, update or delete
\* the store accepted, the figures that depend on the expenses are up to
\* date or their re-fetch has been issued: the expense list and the
\* dashboard's total each show the store's rows or have a read under way.
C4_RefetchAfterMutation ==
    [][(ExpenseMutationCompletes /\ session' # NoUser) =>
          (ListCurrentOrPending' /\ DashboardCurrentOrPending')]_vars

\* C5 as claimed: for a signed-in user, with the store and the session
\* unchanged, a list that shows the store's current rows keeps showing
\* them: no answer of a racing fetch puts an older snapshot back.
C5_NoOlderSnapshot ==
    [][(/\ session # NoUser
        /\ expenses \in SelectExpenseList(expensesTbl, session)
        /\ expensesTbl' = expensesTbl
        /\ session' = session)
          => expenses' \in SelectExpenseList(expensesTbl, session)]_vars

\* The message of the first field of the form that fails validation, in the
\* order amount, description, category, date; "" when every field passes.
FirstFailure(form) ==
    IF ParseFloat(form.amount).nan THEN "Expected number, received nan"
    ELSE IF ParseFloat(form.amount).value <= 0 THEN "Amount must be positive"
    ELSE IF form.description = "" THEN "Description is required"
    ELSE IF Len(form.description) > 200
         THEN "String must contain at most 200 character(s)"
    ELSE IF form.category_id \notin CategoryIds THEN "Please select a category"
    ELSE IF form.date = Null THEN "Date is required"
    ELSE ""

\* A step in which the expense form is submitted.
ExpenseSubmitted == dialogOpen /\ gestures' = gestures - 1 /\ delCalls' = delCalls

\* C8: submitting the expense form with a field that fails validation shows
\* the message of the first failing field, starts neither the user lookup
\* nor an insert or update (no call of the handler is added to those in
\* flight), leaves the dialog open and the form and the store as they were;
\* and every expense row has a strictly positive amount.
C8_InvalidExpenseRejected ==
    /\ [](\A r \in expensesTbl : r.amount > 0)
    /\ [][(ExpenseSubmitted /\ FirstFailure(formData) # "") =>
             /\ toast' = ToastError(FirstFailure(formData))
             /\ dialogOpen'
             /\ UNCHANGED <<edCalls, formData, storeVars, expenses, editingExpense,
                            listFetches, notifications>>]_vars

\* C8 witness: a form with amount "0" and no description was submitted: the
\* amount's message is shown, the dialog is open and no call is in flight.
C8_Witness ==
    /\ toast = ToastError("Amount must be positive")
    /\ formData.amount = <<"0">> /\ formData.description = ""
    /\ dialogOpen
    /\ edCalls = EmptyBag

\* The steps in which the store rejects a mutation, and those in which the
\* handler of a rejected mutation goes on after its await.
Rejected(before, after, sent, stored) ==
    \E call \in BagToSet(before) : \E next \in BagToSet(after) :
        call.pc \in sent /\ next.pc = stored /\ next.error /\ Moves(before, after, call, next)
Fails(before, after, stored) ==
    \E call \in BagToSet(before) :
        call.pc = stored /\ call.error /\ Ends(before, after, call)
DeleteRejected == Rejected(delCalls, delCalls', {"delete"}, "deleted")
SubmitRejected == Rejected(edCalls, edCalls', {"insert", "update"}, "stored")
UpsertRejected == Rejected(btCalls, btCalls', {"upsert"}, "upserted")
DeleteFails == Fails(delCalls, delCalls', "deleted")
SubmitFails == Fails(edCalls, edCalls', "stored")
UpsertFails == Fails(btCalls, btCalls', "upserted")

\* What the components display and the requests they have in flight.
Displayed ==
    <<expenses, budget, monthlySpending, dialogOpen, btDialogOpen, editingExpense,
      formData, budgetAmount, listFetches, btFetches, notifications>>

\* C9: a mutation the store rejects changes no row and sends no change
\* notification; the handler then shows an error toast (never a success
\* toast), ends without sending anything again, and leaves the store, the
\* displayed list and budget, the dialogs' open flags and the forms as they
\* were.
C9_FailedMutationChangesNothing ==
    [][/\ (DeleteRejected \/ SubmitRejected \/ UpsertRejected)
            => UNCHANGED <<storeVars, Displayed, toast>>
       /\ DeleteFails =>
            /\ toast' = ToastError("Failed to delete expense")
            /\ UNCHANGED <<edCalls, btCalls>>
            /\ UNCHANGED <<storeVars, Displayed>>
       /\ SubmitFails =>
            /\ toast'.kind = "error"
            /\ UNCHANGED <<delCalls, btCalls>>
            /\ UNCHANGED <<storeVars, Displayed>>
       /\ UpsertFails =>
            /\ toast' = ToastError("Failed to set budget")
            /\ UNCHANGED <<delCalls, edCalls>>
            /\ UNCHANGED <<storeVars, Displayed>>]_vars

\* C9 witness: a delete was rejected: its error is shown, the call is over,
\* and the row is still in the list and in the store.
C9_Witness ==
    /\ toast = ToastError("Failed to delete expense")
    /\ delCalls = EmptyBag
    /\ \E i \in 1..Len(expenses) : \E r \in expensesTbl : r.id = expenses[i].id

\* The calls of a bag that a step has brought to one of the awaits named.
Sent(before, after, pcs) ==
    {call \in BagToSet(after) :
        call.pc \in pcs /\ CopiesIn(call, after) > CopiesIn(call, before)}

\* C10 as claimed: a step that sends a mutation to the store (the insert or
\* update of handleSubmit, the upsert of handleSetBudget, the delete of
\* handleDelete) is the step of a handler that has obtained a user, and is
\* taken only with a user present.
C10_UserBeforeMutation ==
    [][/\ \A call \in Sent(edCalls, edCalls', {"insert", "update"}) :
             call.user_id # NullId
       /\ \A call \in Sent(btCalls, btCalls', {"upsert"}) : call.user_id # NullId
       /\ Sent(delCalls, delCalls', {"delete"}) # {} => session # NoUser]_vars

\* The first calendar day of the month the client's calendar shows at now.
FirstOfThisMonth == [LocalDate(zone, now) EXCEPT !.d = 1]

\* a is the same calendar day as b or an earlier one, field by field.
OnOrBefore(a, b) ==
    \/ a.y < b.y
    \/ a.y = b.y /\ a.m < b.m
    \/ a.y = b.y /\ a.m = b.m /\ a.d <= b.d

\* C11 as claimed: once the stats are set, monthlyExpenses is the sum of the
\* amounts of exactly the fetched expenses dated on or after the first day
\* of the month of now (that day included), by comparison of calendar
\* dates, in every zone.
C11_MonthByCalendarDate ==
    StatsComputed =>
        Shows(stats.monthlyExpenses,
              SumOfRows({r \in VisibleRows : OnOrBefore(FirstOfThisMonth, r.date)}))

\* The tenths of a percent text write the ratio 100 * part / whole to one
\* decimal: no other number of tenths is nearer to it.
NearestTenth(text, part, whole) ==
    /\ ~text.negative
    /\ 2 * (text.units * whole - 1000 * part) <= whole
    /\ 2 * (1000 * part - text.units * whole) <= whole

\* C12: with a budget shown, the value given to the progress bar is
\* min(percentage, 100), which is 100 * min(spend, limit) / limit to the
\* tenth, and lies in [0, 100]; the percentage text is 100 * spend / limit
\* to one decimal (a tenth nearest to it), not capped: 100.0 or more when
\* spend exceeds limit; the over-budget alert shows spend - limit, for a
\* spending Number above the limit's, and the near-limit alert shows
\* limit - spend, which is not negative. (spend and limit are the amounts
\* in cents the card writes.)
C12_ProgressClamped ==
    budget # Null =>
        LET spend == SpendCents
            limit == budget.limit_amount
            least == IF spend < limit THEN spend ELSE limit
        IN  /\ Compare(ProgressValue, Zero) >= 0
            /\ AtMost(ProgressValue, 100)
            /\ ProgressValue = IF AtMost(percentage, 100) THEN percentage
                               ELSE DoubleOf(100)
            /\ NearestTenth(ToFixed(ProgressValue, 1), least, limit)
            /\ NearestTenth(PercentageText, spend, limit)
            /\ spend > limit => PercentageText.units >= 1000
            /\ ShowsOverAlert =>
                  /\ OverageText = [negative |-> FALSE, units |-> spend - limit]
                  /\ Compare(monthlySpending, NumberOf(limit)) > 0
            /\ ShowsNearAlert =>
                  /\ RemainingText = [negative |-> FALSE, units |-> limit - spend]
                  /\ limit >= spend

\* C12 witness: the spending is twice the budget or more: the bar is given
\* 100 and the text shows 200.0% or more.
C12_Witness ==
    /\ budget # Null
    /\ SpendCents >= 2 * budget.limit_amount
    /\ ProgressValue = DoubleOf(100)
    /\ PercentageText.units >= 2000
    /\ ShowsOverAlert

\* The category name a fetched expense is counted under.
NameOf(exp) ==
    IF exp.expense_categories = Null THEN "Other" ELSE exp.expense_categories.name

\* The names of the expenses of a sequence, each once, in order of first
\* appearance.
RECURSIVE FirstSeen(_, _)
FirstSeen(exps, seen) ==
    IF exps = <<>> THEN seen
    ELSE FirstSeen(Tail(exps),
                   IF \E i \in 1..Len(seen) : seen[i] = NameOf(Head(exps)) THEN seen
                   ELSE Append(seen, NameOf(Head(exps))))

\* A step in which fetchDashboardData sets the stats from fetched expenses.
StatsSet == dashFetch.pc = "replied" /\ dashFetch.hasData /\ dashFetch'.pc = "done"

\* C13: when fetchDashboardData sets the stats, the names of the entries of
\* categorySummary are the distinct category names of the fetched expenses
\* ("Other" for an expense without category), each once, in order of first
\* appearance; the summary is empty exactly when no expense was fetched.
C13_FirstSeenOrder ==
    [][StatsSet =>
          /\ [i \in 1..Len(stats'.categorySummary) |-> stats'.categorySummary[i].category]
                = FirstSeen(dashFetch.data, <<>>)
          /\ (stats'.categorySummary = <<>>) <=> (dashFetch.data = <<>>)]_vars

\* C13 witness: the stats are set from three expenses, one without
\* category, one of the category named "Other" and one of another category:
\* the summary has two entries, "Other" first.
C13_Witness ==
    /\ StatsComputed
    /\ Len(stats.categorySummary) = 2
    /\ stats.categorySummary[1].category = "Other"
    /\ stats.categorySummary[2].category = "Food & Dining"
    /\ \E r1, r2, r3 \in VisibleRows :
          r1.category_id = NullId /\ r2.category_id = "c-food" /\ r3.category_id = "c-other"

\* fetchMonthlySpending has set monthlySpending from a fetched sequence with
\* an expense in it, and no answer is still to come.
SpendingComputed ==
    /\ btFetches.mounted
    /\ btFetches.amounts = EmptyBag
    /\ \A req \in BagToSet(btFetches.sent) : req.kind # "spending"
    /\ Greater(monthlySpending, 0)

\* C14 as claimed: once the Dashboard and the BudgetTracker have both
\* computed their month-to-date figure from the same store at the same
\* "now", monthlyExpenses equals monthlySpending, in every zone and for
\* every set of expense dates.
C14_SameMonthToDate ==
    (StatsComputed /\ SpendingComputed) => stats.monthlyExpenses = monthlySpending

\* A step in which "Add Expense" opens the closed dialog.
AddExpenseOpens == ~dialogOpen /\ dialogOpen' /\ editingExpense' = editingExpense

\* C15: an expense is being edited only while the dialog is open: whenever
\* the dialog is closed editingExpense is null, and when "Add Expense" opens
\* the dialog, the dialog is given no expense.
C15_EditingImpliesOpen ==
    /\ [](editingExpense # Null => dialogOpen)
    /\ [][AddExpenseOpens => editingExpense' = Null]_vars

\* C15 witness: an expense was edited and saved, which closed the dialog,
\* and "Add Expense" has opened it again, without expense.
C15_Witness ==
    /\ toast = ToastSuccess("Expense updated successfully")
    /\ dialogOpen
    /\ editingExpense = Null
    /\ edCalls = EmptyBag

====
